---- MODULE Spec2Model ----
(***************************************************************************)
(* Model of src/reindex/reindexer.py: class Reindexer.                     *)
(*                                                                         *)
(* A Reindexer holds the constructor's parameters and, once                *)
(* create_mapping() has completed, the body used to create the target      *)
(* index.  reindex() issues four blocking calls against the cluster, in    *)
(* this order: indices.create(target), helpers.reindex(source, target),    *)
(* indices.delete(source), indices.update_aliases(add alias -> target).    *)
(* Any call that raises ends reindex() there (the method catches nothing). *)
(* The cluster is the part of the search engine those calls act on: which  *)
(* of the two indices exist, the documents each holds, and the indices     *)
(* the alias is bound to.                                                  *)
(***************************************************************************)
EXTENDS Integers, Sequences, FiniteSets, TLC

VARIABLES
    mapping_file,    \* the lines of the file named by self.__mapping_file
    source_type,     \* self.__source_type
    target_type,     \* self.__target_type
    body,            \* self.__body
    indices,         \* cluster: the set of indices that exist
    docs,            \* cluster: index -> set of document ids it holds
    alias,           \* cluster: the set of indices self.__alias is bound to
    pc,              \* position of the process inside reindex()
    outcome,         \* how the last reindex() call of this process ended
    res,             \* result of each cluster call of the current reindex()
    bodyArg,         \* body passed to indices.create by the current reindex()
    pre,             \* cluster state when the current reindex() was entered
    resumedFrom,     \* step a crashed predecessor process was about to issue
    completedBefore  \* an earlier process ran the migration to completion

vars == <<mapping_file, source_type, target_type, body, indices, docs, alias,
          pc, outcome, res, bodyArg, pre, resumedFrom, completedBefore>>

objVars == <<mapping_file, source_type, target_type>>
clusterVars == <<indices, docs, alias>>

----------------------------------------------------------------------------
(* Bounds *)

MaxLines == 2
MaxDocs == 2

----------------------------------------------------------------------------
(* The mapping file: create_mapping and __get_mappings *)

Types == {"doc", "item"}

\* A line of the mapping file is a sequence of lexical tokens: whitespace,
\* a JSON object text, another JSON object text, the JSON literal null.
WS == "ws"
Lines == { <<>>, <<WS>>, <<"{f}">>, <<WS, "{f}", WS>>, <<"{g}">>,
           <<"null">>, <<"{f}", "{g}">> }

RECURSIVE Files(_)
Files(n) == IF n = 0 THEN { <<>> }
            ELSE Files(n - 1) \cup
                 { Append(f, l) : f \in { g \in Files(n - 1) : Len(g) = n - 1 }, l \in Lines }

RECURSIVE LStrip(_)
LStrip(line) == IF line # <<>> /\ Head(line) = WS THEN LStrip(Tail(line)) ELSE line

RECURSIVE RStrip(_)
RStrip(line) == IF line # <<>> /\ line[Len(line)] = WS
                THEN RStrip(SubSeq(line, 1, Len(line) - 1)) ELSE line

\* str.strip()
Strip(line) == RStrip(LStrip(line))

\* json.loads(line): surrounding whitespace is skipped, exactly one JSON value
\* must remain; anything else raises ValueError.
ValueError == "ValueError"
JsonValue(tok) == CASE tok = "{f}" -> "dict_f"
                    [] tok = "{g}" -> "dict_g"
                    [] tok = "null" -> "None"
                    [] OTHER -> ValueError
JsonLoads(line) == LET s == Strip(line)
                   IN IF Len(s) = 1 THEN JsonValue(s[1]) ELSE ValueError

\* Python dict as a set of <<key, value>> pairs with unique keys.
DictSet(d, k, v) == { p \in d : p[1] # k } \cup { <<k, v>> }
DictGet(d, k) == (CHOOSE p \in d : p[1] = k)[2]

\* index of the first line with len(line.strip()) > 0, or 0
FirstNonEmpty(file) ==
    IF \E i \in 1..Len(file) : Len(Strip(file[i])) > 0
    THEN CHOOSE i \in 1..Len(file) :
            /\ Len(Strip(file[i])) > 0
            /\ \A j \in 1..(i - 1) : Len(Strip(file[j])) = 0
    ELSE 0

\* Reindexer.__get_mappings
GetMappingsKey(st, tt) == st

GetMappings(file, st, tt) ==
    LET mapping == { <<tt, "dict_empty">> }
        i == FirstNonEmpty(file)
    IN IF i = 0 THEN [raised |-> FALSE, value |-> mapping]
       ELSE IF JsonLoads(file[i]) = ValueError
            THEN [raised |-> TRUE, value |-> {}]
            ELSE [raised |-> FALSE,
                  value |-> DictSet(mapping, GetMappingsKey(st, tt), JsonLoads(file[i]))]

Unset == [kind |-> "unset", mappings |-> {}]
NoneBody == [kind |-> "None", mappings |-> {}]
DictBody(m) == [kind |-> "dict", mappings |-> m]

\* the value create_mapping leaves in self.__body when it completes
CreateMappingBody(file, st, tt) ==
    LET mapping == GetMappings(file, st, tt).value
    IN IF DictGet(mapping, tt) # "None" THEN DictBody(mapping) ELSE NoneBody

\* Reindexer.create_mapping: an exception of __get_mappings propagates before
\* self.__body is assigned, so self.__body stays as it was.
CreateMapping ==
    /\ pc = "idle"
    /\ body' = IF GetMappings(mapping_file, source_type, target_type).raised
               THEN body
               ELSE CreateMappingBody(mapping_file, source_type, target_type)
    /\ UNCHANGED <<objVars, clusterVars, pc, outcome, res, bodyArg, pre,
                   resumedFrom, completedBefore>>

----------------------------------------------------------------------------
(* The cluster, as the calls of reindex() see it *)

source_index == "orders_v1"
target_index == "orders_v2"
IndexNames == {source_index, target_index}
Docs == 1..MaxDocs

Cluster == [indices |-> indices, docs |-> docs, alias |-> alias]

\* IndicesClient.create: a new, empty index
EsCreate(c, name) ==
    [c EXCEPT !.indices = @ \cup {name}, !.docs = [@ EXCEPT ![name] = {}]]

\* helpers.reindex: the documents S read from src are indexed into tgt under
\* their own ids (an id already in tgt is overwritten, not duplicated)
EsReindex(c, src, tgt, S) ==
    [c EXCEPT !.docs = [@ EXCEPT ![tgt] = @ \cup S]]

\* IndicesClient.delete: the index goes, with its documents and with every
\* alias binding that pointed at it
EsDelete(c, name) ==
    [c EXCEPT !.indices = @ \ {name},
              !.docs = [@ EXCEPT ![name] = {}],
              !.alias = @ \ {name}]

\* IndicesClient.update_aliases: the actions of one request, applied in order
\* and all together
RECURSIVE EsUpdateAliases(_, _)
EsUpdateAliases(c, actions) ==
    IF actions = <<>> THEN c
    ELSE LET a == Head(actions)
             c1 == IF a.op = "add" THEN [c EXCEPT !.alias = @ \cup {a.index}]
                   ELSE [c EXCEPT !.alias = @ \ {a.index}]
         IN EsUpdateAliases(c1, Tail(actions))

----------------------------------------------------------------------------
(* Reindexer.reindex *)

Steps == {"create", "copy", "delete", "alias"}
NoCalls == [s \in Steps |-> "none"]

\* line 52 reads self.__body: the attribute exists only once create_mapping
\* has assigned it, otherwise the read raises AttributeError
BodyIsSetAlways(b) == TRUE

BodyIsSet(b) == b # Unset

\* an exception of a call leaves reindex(); a call that returns is followed by
\* the next statement
AfterCreateSwallow(r) == "copy"

AfterCreate(r) == IF r = "ok" THEN "copy" ELSE "idle"

AfterCopySwallow(r) == "delete"

AfterCopy(r) == IF r = "ok" THEN "delete" ELSE "idle"

AfterDelete(r) == IF r = "ok" THEN "alias" ELSE "idle"

\* lines 59-64: the alias request holds the add action only, the remove action
\* is commented out
AliasActionsNone == <<>>

AliasActions == << [op |-> "add", index |-> target_index] >>

Finish(step, r, c, next) ==
    /\ res' = [res EXCEPT ![step] = r]
    /\ indices' = c.indices
    /\ docs' = c.docs
    /\ alias' = c.alias
    /\ pc' = next
    /\ outcome' = IF next # "idle" THEN "none"
                  ELSE IF r = "ok" THEN "complete" ELSE "failed"

\* lines 44-52: entering reindex() and index_client.create(target, body)
ReindexCreate ==
    /\ pc = "idle"
    /\ pre' = Cluster
    /\ completedBefore' = (completedBefore \/ outcome = "complete")
    /\ resumedFrom' = IF outcome = "none" THEN resumedFrom ELSE "none"
    /\ UNCHANGED <<objVars, body>>
    /\ IF ~BodyIsSet(body)
       THEN /\ res' = NoCalls
            /\ bodyArg' = Unset
            /\ outcome' = "failed"
            /\ UNCHANGED <<clusterVars, pc>>
       ELSE /\ bodyArg' = body
            /\ \E r \in {"ok", "fault", "exists"}, applied \in BOOLEAN :
                 /\ (target_index \in indices) <=> (r = "exists")
                 /\ r = "ok" => applied
                 /\ r = "exists" => ~applied
                 /\ res' = [NoCalls EXCEPT !["create"] = r]
                 /\ LET c == IF applied THEN EsCreate(Cluster, target_index) ELSE Cluster
                    IN /\ indices' = c.indices
                       /\ docs' = c.docs
                       /\ alias' = c.alias
                 /\ pc' = AfterCreate(r)
                 /\ outcome' = IF AfterCreate(r) = "idle" THEN "failed" ELSE "none"

\* lines 54-56: helpers.reindex(source, target).  A failing copy may have
\* written any part of the source's documents before it raised.
ReindexCopy ==
    /\ pc = "copy"
    /\ \E r \in {"ok", "fault", "notfound"}, S \in SUBSET docs[source_index] :
         /\ (source_index \notin indices) <=> (r = "notfound")
         /\ r = "ok" => S = docs[source_index]
         /\ Finish("copy", r, EsReindex(Cluster, source_index, target_index, S),
                   AfterCopy(r))
    /\ UNCHANGED <<objVars, body, bodyArg, pre, resumedFrom, completedBefore>>

\* line 67: index_client.delete(source)
ReindexDelete ==
    /\ pc = "delete"
    /\ \E r \in {"ok", "fault", "notfound"}, applied \in BOOLEAN :
         /\ (source_index \notin indices) <=> (r = "notfound")
         /\ r = "ok" => applied
         /\ r = "notfound" => ~applied
         /\ Finish("delete", r,
                   IF applied THEN EsDelete(Cluster, source_index) ELSE Cluster,
                   AfterDelete(r))
    /\ UNCHANGED <<objVars, body, bodyArg, pre, resumedFrom, completedBefore>>

\* line 68: index_client.update_aliases(body=alias)
ReindexUpdateAliases ==
    /\ pc = "alias"
    /\ \E r \in {"ok", "fault", "notfound"}, applied \in BOOLEAN :
         /\ (\E a \in {AliasActions[i] : i \in 1..Len(AliasActions)} :
                a.index \notin indices) <=> (r = "notfound")
         /\ r = "ok" => applied
         /\ r = "notfound" => ~applied
         /\ Finish("alias", r,
                   IF applied THEN EsUpdateAliases(Cluster, AliasActions) ELSE Cluster,
                   "idle")
    /\ UNCHANGED <<objVars, body, bodyArg, pre, resumedFrom, completedBefore>>

\* the process dies between two cluster calls of reindex()
Crash ==
    /\ pc \in {"copy", "delete", "alias"}
    /\ resumedFrom' = pc
    /\ pc' = "crashed"
    /\ UNCHANGED <<objVars, body, clusterVars, outcome, res, bodyArg, pre,
                   completedBefore>>

\* Reindexer.__init__ in a new process, with the same parameters
NewProcess ==
    /\ pc \in {"idle", "crashed"}
    /\ body' = Unset
    /\ pc' = "idle"
    /\ outcome' = "none"
    /\ res' = NoCalls
    /\ bodyArg' = Unset
    /\ pre' = Cluster
    /\ resumedFrom' = IF pc = "crashed" THEN resumedFrom ELSE "none"
    /\ completedBefore' = (completedBefore \/ outcome = "complete")
    /\ UNCHANGED <<objVars, clusterVars>>

----------------------------------------------------------------------------
(* Specifications *)

InitObject ==
    /\ body = Unset
    /\ pc = "idle"
    /\ outcome = "none"
    /\ res = NoCalls
    /\ bodyArg = Unset
    /\ pre = Cluster
    /\ resumedFrom = "none"
    /\ completedBefore = FALSE

InitCluster ==
    /\ indices \in SUBSET IndexNames
    /\ docs \in [IndexNames -> SUBSET Docs]
    /\ \A i \in IndexNames \ indices : docs[i] = {}
    /\ alias \in SUBSET indices

SampleFiles == { <<>>, << <<WS, "{f}", WS>> >>, << <<"{f}", "{g}">> >> }

\* every cluster the two indices and the alias can be in, a few mapping files
Init ==
    /\ mapping_file \in SampleFiles
    /\ source_type = "doc"
    /\ target_type \in Types
    /\ InitCluster
    /\ InitObject

\* every mapping file and pair of types, one cluster
InitMapping ==
    /\ mapping_file \in Files(MaxLines)
    /\ source_type \in Types
    /\ target_type \in Types
    /\ indices = {source_index}
    /\ docs = [i \in IndexNames |-> IF i = source_index THEN Docs ELSE {}]
    /\ alias \in SUBSET indices
    /\ InitObject

Next ==
    \/ CreateMapping
    \/ ReindexCreate
    \/ ReindexCopy
    \/ ReindexDelete
    \/ ReindexUpdateAliases
    \/ Crash
    \/ NewProcess

Spec == Init /\ [][Next]_vars

SpecMapping == InitMapping /\ [][Next]_vars

----------------------------------------------------------------------------
(* Properties *)

\* a reindex() call of this process is under way or has ended
Started == pc # "idle" \/ outcome # "none"

\* the run is the migration proper: create_mapping completed before reindex()
Mapped == bodyArg # Unset

SourceAsBefore ==
    /\ (source_index \in indices) <=> (source_index \in pre.indices)
    /\ docs[source_index] = pre.docs[source_index]

NoFault == \A s \in Steps : res[s] # "fault"

\* C1: the delete of the source index is issued only after the alias add for
\* the target has returned successfully.
C1_DeleteAfterAliasAdd ==
    res["delete"] # "none" => res["alias"] = "ok"

\* C2: when the alias pointed at the source index before reindex() and the
\* alias-update call fails, the alias still resolves to at least one index
\* (its binding before the update, or the binding after it).
C2_AliasNeverEmpty ==
    (source_index \in pre.alias /\ res["alias"] = "fault")
        => (alias # {} /\ (source_index \in alias \/ target_index \in alias))

\* C3: running the migration again after it has completed is a no-op: no
\* re-creation error, no create, delete or alias action, cluster unchanged.
C3_RerunIsNoOp ==
    (completedBefore /\ body # Unset /\ pc = "idle" /\ outcome # "none")
        => /\ outcome = "complete"
           /\ res["create"] = "none"
           /\ res["delete"] = "none"
           /\ res["alias"] = "none"
           /\ Cluster = pre

\* C4: a migration re-invoked after a crash between two cluster calls ends
\* completed (when no call is made to fail) and does not issue the create of
\* the target index again.
C4_CrashResume ==
    (resumedFrom # "none" /\ body # Unset /\ pc = "idle" /\ outcome # "none"
        /\ NoFault)
        => (outcome = "complete" /\ res["create"] = "none")

\* C5: when the create of the target index fails, reindex() ends failed and
\* issues nothing else: the source index and its documents, the documents of
\* the target and the alias bindings are as they were before the run.
C5_CreateFailureStops ==
    res["create"] \in {"fault", "exists"}
        => /\ pc = "idle"
           /\ outcome = "failed"
           /\ res["copy"] = "none"
           /\ res["delete"] = "none"
           /\ res["alias"] = "none"
           /\ SourceAsBefore
           /\ docs[target_index] = pre.docs[target_index]
           /\ alias = pre.alias

C5_Witness ==
    /\ res["create"] = "fault"
    /\ outcome = "failed"
    /\ source_index \in indices
    /\ docs[source_index] = Docs
    /\ alias = {source_index}

C7_IdempotentCreate ==
    res["create"] = "exists"
        => ~(pc = "idle" /\ outcome = "failed" /\ res["copy"] = "none")

\* C8: the delete of the source index is issued only after the copy returned
\* without error; when the copy fails, reindex() ends with the source index
\* and its documents as they were, and neither delete nor alias update issued.
C8_NoLossOnCopyFailure ==
    /\ res["delete"] # "none" => res["copy"] = "ok"
    /\ res["copy"] \in {"fault", "notfound"}
         => /\ pc = "idle"
            /\ outcome = "failed"
            /\ res["delete"] = "none"
            /\ res["alias"] = "none"
            /\ SourceAsBefore

C8_Witness ==
    /\ res["copy"] = "fault"
    /\ outcome = "failed"
    /\ source_index \in indices
    /\ docs[source_index] = Docs
    /\ docs[target_index] # {}
    /\ docs[target_index] # Docs

\* C9: after create_mapping() on a file whose first non-empty line is a JSON
\* object, the body is {"mappings": {target_type: that object}}, whatever
\* source_type and target_type are.
C9_BodyMapsTargetType ==
    LET i == FirstNonEmpty(mapping_file)
    IN (body # Unset /\ i # 0 /\ JsonLoads(mapping_file[i]) \in {"dict_f", "dict_g"})
          => body = DictBody({ <<target_type, JsonLoads(mapping_file[i])>> })

\* C10: reindex() on an object on which create_mapping() never completed
\* fails before any cluster call, leaving the cluster as it was; the create
\* of the target index is only issued with the body a completed
\* create_mapping() produced.
C10_CallOrder ==
    /\ (body = Unset /\ outcome # "none")
         => (outcome = "failed" /\ res = NoCalls /\ Cluster = pre)
    /\ res["create"] # "none"
         => /\ ~GetMappings(mapping_file, source_type, target_type).raised
            /\ bodyArg = CreateMappingBody(mapping_file, source_type, target_type)

C10_Witness ==
    /\ body = Unset
    /\ pc = "idle"
    /\ outcome = "failed"
    /\ res = NoCalls
    /\ source_index \in indices

====
